---- MODULE Spec2Model ----
(***************************************************************************)
(* Soundsmith: the per-server playback session (SoundsmithConnection) of   *)
(* src/soundsmith.ts, its track descriptors (SoundObject) and the audio    *)
(* player it drives.                                                       *)
(*                                                                         *)
(* The program runs on one event loop.  Every action below is one          *)
(* run-to-completion piece of it: a command calling a session method, a    *)
(* state change of the audio player (with the 'stateChange' listener of    *)
(* lines 103-113 run inside it), or the completion of the one await of     *)
(* processQueue (line 294).  The session methods are written as operators  *)
(* on a record of the session's fields, so that a method calling another   *)
(* method is an operator applied to the result of another.  An operator    *)
(* whose code draws random numbers yields the set of its possible results. *)
(*                                                                         *)
(* The audio player is @discordjs/voice's AudioPlayer.  What the session   *)
(* relies on (lines 183-184, 253, 267, 300): play(resource) loads the      *)
(* resource and leaves Idle (Buffering, then Playing); stop() without      *)
(* force on a resource with silence padding plays the padding out and      *)
(* then goes Idle, stop(true) goes Idle at once, both do nothing on an     *)
(* Idle player; pause() acts only on a Playing, unpause() only on a Paused *)
(* player.                                                                 *)
(*                                                                         *)
(* Four parts of the state only record what happened and are read by no    *)
(* operation: the hooks of a descriptor (the session calls them and never  *)
(* reads them), the order of first plays, the last operation, and the      *)
(* descriptors the session held at each call of stopQueue.  The            *)
(* variable observe, fixed by the initial state, says which of them a      *)
(* specification follows: the hooks of one descriptor (the probe), chosen  *)
(* freely, since the hooks of different descriptors do not interact.       *)
(*                                                                         *)
(* The length of a descriptor is read by getQueueLength and getTimeHMS     *)
(* only, which write nothing.  A specification without getQueueLength      *)
(* gives every descriptor the same length; the others draw the lengths     *)
(* from Durations.  Text is a sequence of one-character strings.           *)
(***************************************************************************)
EXTENDS Integers, Sequences, FiniteSets, TLC

\* Bounds of the model.
NTracks == 3        \* descriptors the command layer constructs in one run
MaxCalls == 2       \* the callback counters stop counting here
MaxSkip == 3        \* largest argument of skipMultipleTracks
MaxBatch == 2       \* largest playlist handed to enqueueMultiple

Tracks == 1..NTracks
NoTrack == 0                    \* null (currentObject) / no resource loaded
Undefined == -1                 \* the value of [].shift()
HookNames == {"onStart", "onFinish", "onError"}

\* info.durationInSec of the videos a requester may ask for.
Durations == {59, 65, 600, 3600, 36000}

VARIABLES
    queue,           \* SoundsmithConnection.queue
    queueLock,       \* SoundsmithConnection.queueLock
    currentObject,   \* SoundsmithConnection.currentObject
    skippedSong,     \* SoundsmithConnection.skippedSong
    playbackFlags,   \* SoundsmithConnection.playbackFlags
    status,          \* audioPlayer.state.status
    resource,        \* audioPlayer.state.resource.metadata
    stopping,        \* audioPlayer: stop() asked for, padding not played out
    pending,         \* nextTrack of every processQueue suspended at line 294
    nextId,          \* the next descriptor the command layer will construct
    hooks,           \* the probe's fields onStart, onFinish, onError
    wrappedMethods,  \* the wrappedMethods object the probe's wrappers close over
    calls,           \* how often the requester's callbacks of the probe ran
    invoked,         \* how often the probe's hooks were invoked
    startOrder,      \* descriptors in the order they were first played
    fault,           \* a processQueue promise was rejected (nobody handles it)
    lastOp,          \* the last operation that ran, with its arguments
    observe,         \* what is recorded: [probe, order, op, stop]
    lengthSeconds,   \* SoundObject.lengthSeconds of every descriptor
    queueLengthText, \* what getQueueLength() returned last, as characters
    voiceConnections,\* the guild ids that have an entry in voiceConnections
    voiceConnection, \* SoundsmithConnection.voiceConnection: its state.status,
                     \* rejoinAttempts and the close code of its disconnect
    readyLock,       \* SoundsmithConnection.readyLock
    awaiting,        \* the play command suspended at line 940, if any
    stopped          \* the descriptors the session held when stopQueue ran

vars == <<queue, queueLock, currentObject, skippedSong, playbackFlags, status,
          resource, stopping, pending, nextId, hooks, wrappedMethods, calls,
          invoked, startOrder, fault, lastOp, observe, lengthSeconds,
          queueLengthText, voiceConnections, voiceConnection, readyLock,
          awaiting, stopped>>

\* The whole state as one record, for the operators below.
St ==
    [queue |-> queue, queueLock |-> queueLock, currentObject |-> currentObject,
     skippedSong |-> skippedSong, playbackFlags |-> playbackFlags,
     status |-> status, resource |-> resource, stopping |-> stopping,
     pending |-> pending, nextId |-> nextId, hooks |-> hooks,
     wrappedMethods |-> wrappedMethods, calls |-> calls, invoked |-> invoked,
     startOrder |-> startOrder, fault |-> fault, observe |-> observe,
     lengthSeconds |-> lengthSeconds, queueLengthText |-> queueLengthText,
     stopped |-> stopped]

\* The next state of the session and of the command layer's descriptors.
CommitSession(r) ==
    /\ queue' = r.queue
    /\ queueLock' = r.queueLock
    /\ currentObject' = r.currentObject
    /\ skippedSong' = r.skippedSong
    /\ playbackFlags' = r.playbackFlags
    /\ status' = r.status
    /\ resource' = r.resource
    /\ stopping' = r.stopping
    /\ pending' = r.pending
    /\ nextId' = r.nextId
    /\ hooks' = r.hooks
    /\ wrappedMethods' = r.wrappedMethods
    /\ calls' = r.calls
    /\ invoked' = r.invoked
    /\ startOrder' = r.startOrder
    /\ fault' = r.fault
    /\ observe' = observe
    /\ lengthSeconds' = lengthSeconds
    /\ queueLengthText' = r.queueLengthText
    /\ stopped' = r.stopped

\* A step of the session that leaves the registry and the transport alone.
Commit(r) ==
    /\ CommitSession(r)
    /\ UNCHANGED <<voiceConnections, voiceConnection, readyLock, awaiting>>

Record(op) == lastOp' = IF observe.op THEN op ELSE lastOp

----------------------------------------------------------------------------
\* Helpers on sequences (JavaScript arrays, 0-based there, 1-based here).

Max(a, b) == IF a >= b THEN a ELSE b
Min(a, b) == IF a <= b THEN a ELSE b

Range(q) == {q[i] : i \in 1..Len(q)}

\* Array.prototype.splice(start, count) with nothing inserted.
Splice(q, start, count) ==
    LET n == Len(q)
        from == Min(Max(start, 0), n)
        cnt == Min(Max(count, 0), n - from)
    IN SubSeq(q, 1, from) \o SubSeq(q, from + cnt + 1, n)

\* Array.prototype.splice(pos, 0, x).
InsertAt(q, pos, x) ==
    LET p == Min(Max(pos, 0), Len(q))
    IN SubSeq(q, 1, p) \o <<x>> \o SubSeq(q, p + 1, Len(q))

RemoveAt(q, i) == SubSeq(q, 1, i - 1) \o SubSeq(q, i + 1, Len(q))

\* Math.floor(Math.random() * n)
RandomBelow(n) == 0..(n - 1)

Bump(c) == IF c < MaxCalls THEN c + 1 ELSE c

----------------------------------------------------------------------------
\* calcTimeHMS

DigitChars == <<"0", "1", "2", "3", "4", "5", "6", "7", "8", "9">>

\* Number.prototype.toString() of an integer n >= 0.
RECURSIVE NumberToString(_)
NumberToString(n) ==
    IF n < 10 THEN <<DigitChars[n + 1]>>
    ELSE NumberToString(n \div 10) \o <<DigitChars[(n % 10) + 1]>>

\* calcTimeHMS with the minutes padded whatever the hours are.
CalcTimeHMSPadded(lengthSeconds0) ==
    LET hours == lengthSeconds0 \div 3600
        minutes == (lengthSeconds0 - (hours * 3600)) \div 60
        seconds == lengthSeconds0 - (hours * 3600) - (minutes * 60)
        strHours == NumberToString(hours)
        strMinutes == IF minutes < 10
                      THEN <<"0">> \o NumberToString(minutes)
                      ELSE NumberToString(minutes)
        strSeconds == IF seconds < 10
                      THEN <<"0">> \o NumberToString(seconds)
                      ELSE NumberToString(seconds)
    IN (IF hours > 0 THEN strHours \o <<":">> ELSE <<>>)
       \o strMinutes \o <<":">> \o strSeconds

\* calcTimeHMS(lengthSeconds), lengthSeconds an integer >= 0.
CalcTimeHMS(lengthSeconds0) ==
    LET hours == lengthSeconds0 \div 3600
        minutes == (lengthSeconds0 - (hours * 3600)) \div 60
        seconds == lengthSeconds0 - (hours * 3600) - (minutes * 60)
        strHours == NumberToString(hours)
        strMinutes == IF hours > 0 /\ minutes < 10
                      THEN <<"0">> \o NumberToString(minutes)
                      ELSE NumberToString(minutes)
        strSeconds == IF seconds < 10
                      THEN <<"0">> \o NumberToString(seconds)
                      ELSE NumberToString(seconds)
    IN (IF hours > 0 THEN strHours \o <<":">> ELSE <<>>)
       \o strMinutes \o <<":">> \o strSeconds

----------------------------------------------------------------------------
\* SoundObject

\* SoundObject.from: the wrappedMethods object holds three wrappers, and the
\* descriptor gets a copy of the three function values ({...wrappedMethods}).
SoundObjectFrom(s, t) ==
    IF t = s.observe.probe
    THEN [s EXCEPT !.wrappedMethods = [h \in HookNames |-> "wrapper"],
                   !.hooks = [h \in HookNames |-> "wrapper"],
                   !.nextId = t + 1]
    ELSE [s EXCEPT !.nextId = t + 1]

\* track.onStart() / track.onFinish() / track.onError(e): run the function
\* the descriptor's field holds.  A wrapper assigns noop to the field of
\* wrappedMethods and then calls the requester's callback.
InvokeHook(s, t, h) ==
    IF t # s.observe.probe THEN s
    ELSE LET s1 == [s EXCEPT !.invoked[h] = Bump(@)]
         IN IF s.hooks[h] = "wrapper"
            THEN [s1 EXCEPT !.wrappedMethods[h] = "noop",
                            !.calls[h] = Bump(@)]
            ELSE s1

----------------------------------------------------------------------------
\* The audio player.

\* audioPlayer.play(resource)
PlayerPlay(s, t) ==
    [s EXCEPT !.status = "Buffering", !.resource = t, !.stopping = FALSE,
              !.startOrder = IF s.observe.order /\ t \notin Range(@)
                             THEN Append(@, t) ELSE @]

\* audioPlayer.stop(): the padding is played out before the player goes Idle.
PlayerStop(s) ==
    IF s.status = "Idle" THEN s ELSE [s EXCEPT !.stopping = TRUE]

----------------------------------------------------------------------------
\* SoundsmithConnection

\* enqueueShuffled
EnqueueShuffled(s, track) ==
    { [s EXCEPT !.queue = InsertAt(@, Max(rand1, rand2), track)] :
        rand1 \in RandomBelow(Len(s.queue) + 1),
        rand2 \in RandomBelow(Len(s.queue) + 1) }

\* The first guard of processQueue without the test of queueLock.
QueueBusyNoLock(s) == s.status # "Idle"

\* The first guard of processQueue (line 267).
QueueBusy(s) == s.queueLock \/ s.status # "Idle"

\* The second guard of processQueue without the flags.
NothingToPlayNoFlags(s) == Len(s.queue) = 0 /\ s.currentObject = NoTrack

\* The second guard of processQueue (line 271).
NothingToPlay(s) ==
    /\ Len(s.queue) = 0
    /\ (s.currentObject = NoTrack
        \/ ~(s.playbackFlags.loop \/ s.playbackFlags.repeat))

\* The condition of line 279 without the test of skippedSong.
ReplayCurrentIgnoringSkip(s) ==
    /\ s.currentObject # NoTrack
    /\ (s.playbackFlags.repeat
        \/ (Len(s.queue) = 0 /\ s.playbackFlags.loop))

\* The condition of line 279: play the previous object again.
ReplayCurrent(s) ==
    /\ ~s.skippedSong
    /\ s.currentObject # NoTrack
    /\ (s.playbackFlags.repeat
        \/ (Len(s.queue) = 0 /\ s.playbackFlags.loop))

\* Line 287 putting the finished descriptor in front of the queue.
EnqueueLockedInFront(s, track) == [s EXCEPT !.queue = <<track>> \o @]

\* this.enqueue(this.currentObject) at line 287: push, and a nested
\* processQueue that returns at line 268 because queueLock was set at 274.
EnqueueLocked(s, track) == [s EXCEPT !.queue = Append(@, track)]

\* Lines 293-294 up to the await.  nextTrack undefined: the call throws a
\* TypeError inside try, the catch block throws another one at line 304, and
\* the promise of processQueue is rejected with queueLock still set.
AwaitResource(s, nextTrack) ==
    IF nextTrack = Undefined
    THEN [s EXCEPT !.fault = TRUE]
    ELSE [s EXCEPT !.pending = Append(@, nextTrack)]

\* processQueue, from its call to its first suspension (or return).
ProcessQueue(s) ==
    IF QueueBusy(s) THEN {s}
    ELSE IF NothingToPlay(s) THEN {s}
    ELSE LET s1 == [s EXCEPT !.queueLock = TRUE]
         IN IF ReplayCurrent(s1)
            THEN { AwaitResource([s1 EXCEPT !.skippedSong = FALSE],
                                 s1.currentObject) }
            ELSE LET nextTrack == IF Len(s1.queue) > 0 THEN Head(s1.queue)
                                  ELSE Undefined
                     s2 == [s1 EXCEPT !.queue = IF Len(@) > 0 THEN Tail(@)
                                                ELSE @]
                     requeued ==
                        IF s2.playbackFlags.loop /\ s2.currentObject # NoTrack
                        THEN IF s2.playbackFlags.shuffle
                             THEN EnqueueShuffled(s2, s2.currentObject)
                             ELSE {EnqueueLocked(s2, s2.currentObject)}
                        ELSE {s2}
                 IN { AwaitResource([s3 EXCEPT !.skippedSong = FALSE],
                                    nextTrack) : s3 \in requeued }

\* enqueue with unshift in the place of push.
EnqueueUnshift(s, track) == ProcessQueue([s EXCEPT !.queue = <<track>> \o @])

\* enqueue
Enqueue(s, track) == ProcessQueue([s EXCEPT !.queue = Append(@, track)])

\* skipTrack
SkipTrack(s) == PlayerStop([s EXCEPT !.skippedSong = TRUE])

\* skipMultipleTracks removing numTracks entries, not numTracks - 1.
SkipMultipleTracksOffByOne(s, numTracks) ==
    LET s1 == IF numTracks > 1
              THEN [s EXCEPT !.queue = Splice(@, 0, numTracks)]
              ELSE s
    IN PlayerStop([s1 EXCEPT !.skippedSong = TRUE])

\* skipMultipleTracks
SkipMultipleTracks(s, numTracks) ==
    LET s1 == IF numTracks > 1
              THEN [s EXCEPT !.queue = Splice(@, 0, numTracks - 1)]
              ELSE s
    IN PlayerStop([s1 EXCEPT !.skippedSong = TRUE])

\* skipRangeTracks reads this.queue[i].title for every i it is about to
\* remove (line 205); an index past the end of the array gives undefined and
\* the property read throws a TypeError before anything is removed.
SkipRangeThrows(s, skipStart, skipEnd) ==
    /\ skipStart # 0
    /\ \E i \in Max(0, skipStart - 1)..(skipEnd - 1) : i >= Len(s.queue)

\* skipRangeTracks without the subtraction of line 203.
SkipRangeTracksFromZero(s, skipStart, skipEnd) ==
    IF skipStart = 0 THEN SkipMultipleTracks(s, skipEnd + 1)
    ELSE IF skipStart < skipEnd /\ ~SkipRangeThrows(s, skipStart, skipEnd)
         THEN [s EXCEPT !.queue = Splice(@, skipStart, skipEnd - skipStart)]
         ELSE s

\* skipRangeTracks handing skipEnd, not skipEnd + 1, to skipMultipleTracks.
SkipRangeTracksSameCount(s, skipStart, skipEnd) ==
    IF skipStart = 0 THEN SkipMultipleTracks(s, skipEnd)
    ELSE LET start == Max(0, skipStart - 1)
         IN IF start < skipEnd /\ ~SkipRangeThrows(s, skipStart, skipEnd)
            THEN [s EXCEPT !.queue = Splice(@, start, skipEnd - start)]
            ELSE s

\* skipRangeTracks
SkipRangeTracks(s, skipStart, skipEnd) ==
    IF skipStart = 0 THEN SkipMultipleTracks(s, skipEnd + 1)
    ELSE LET start == Max(0, skipStart - 1)
         IN IF start < skipEnd /\ ~SkipRangeThrows(s, skipStart, skipEnd)
            THEN [s EXCEPT !.queue = Splice(@, start, skipEnd - start)]
            ELSE s

\* The test of stopQueue without the status of the player.
StopQueueReturnsQueueOnly(s) == Len(s.queue) # 0

\* stopQueue: the state it leaves, and the value it returns.
StopQueueReturns(s) == ~(Len(s.queue) = 0 /\ s.status = "Idle")

\* The descriptors the session holds: queued, being resolved, or current.
Held(s) ==
    Range(s.queue) \cup Range(s.pending) \cup ({s.currentObject} \ {NoTrack})

\* stopQueue (lines 170-177); what the session held is recorded on request.
StopQueue(s) ==
    LET s0 == [s EXCEPT !.stopped = IF s.observe.stop THEN @ \cup Held(s)
                                    ELSE @]
    IN IF ~StopQueueReturns(s) THEN s0
       ELSE SkipTrack([s0 EXCEPT !.queue = <<>>])

\* setFlagRepeat, setFlagLoop
SetFlagRepeat(s, flag) == [s EXCEPT !.playbackFlags.repeat = flag]

SetFlagLoop(s, flag) == [s EXCEPT !.playbackFlags.loop = flag]

\* setFlagRepeat returning the flag, not whether it changed.
SetFlagRepeatReturnsFlag(s, flag) == flag

\* The values setFlagRepeat and setFlagLoop return: prev !== flag.
SetFlagRepeatReturns(s, flag) == s.playbackFlags.repeat # flag

SetFlagLoopReturns(s, flag) == s.playbackFlags.loop # flag

\* The swap of line 243 with only its first assignment.
SwapOverwrite(q, i, j) ==
    [k \in 1..Len(q) |-> IF k = i + 1 THEN q[j + 1] ELSE q[k]]

\* [q[i], q[j]] = [q[j], q[i]], i and j 0-based.
Swap(q, i, j) ==
    [k \in 1..Len(q) |-> IF k = i + 1 THEN q[j + 1]
                         ELSE IF k = j + 1 THEN q[i + 1] ELSE q[k]]

\* shuffleQueue: the loop of lines 241-244 from index i downwards.
RECURSIVE ShuffleFrom(_, _)
ShuffleFrom(q, i) ==
    IF i > 0
    THEN UNION { ShuffleFrom(Swap(q, i, j), i - 1) : j \in RandomBelow(i + 1) }
    ELSE {q}

ShuffleQueue(q) == ShuffleFrom(q, Len(q) - 1)

\* setFlagShuffle: the states it may leave, and the value it returns.
SetFlagShuffle(s, flag) ==
    { [s EXCEPT !.queue = q, !.playbackFlags.shuffle = flag] :
        q \in IF flag THEN ShuffleQueue(s.queue) ELSE {s.queue} }

\* setFlagShuffle returning prev !== flag, as the other two flags do.
SetFlagShuffleReturnsChanged(s, flag) == flag # s.playbackFlags.shuffle

SetFlagShuffleReturns(s, flag) == flag \/ flag # s.playbackFlags.shuffle

\* The listener of the audio player's 'stateChange' (lines 103-113), run
\* when the player has just left oldStatus, where oldResource was loaded.
StateChange(s, oldStatus, oldResource) ==
    IF s.status = "Idle" /\ oldStatus # "Idle"
    THEN ProcessQueue(InvokeHook(s, oldResource, "onFinish"))
    ELSE IF s.status = "Playing"
    THEN {InvokeHook(s, oldResource, "onStart")}
    ELSE {s}

\* audioPlayer.pause()
PlayerPause(s) ==
    IF s.status = "Playing"
    THEN StateChange([s EXCEPT !.status = "Paused"], s.status, s.resource)
    ELSE {s}

\* audioPlayer.unpause()
PlayerUnpause(s) ==
    IF s.status = "Paused"
    THEN StateChange([s EXCEPT !.status = "Playing"], s.status, s.resource)
    ELSE {s}

\* enqueueStart without its call of skipTrack.
EnqueueStartNoSkip(s, track) ==
    LET s1 == [s EXCEPT !.queue = <<track>> \o @]
    IN UNION { ProcessQueue(s2) : s2 \in PlayerUnpause(s1) }

\* enqueueStart
EnqueueStart(s, track) ==
    LET s1 == SkipTrack([s EXCEPT !.queue = <<track>> \o @])
    IN UNION { ProcessQueue(s2) : s2 \in PlayerUnpause(s1) }

\* enqueueMultiple putting the tracks in front one by one (enqueueObject in
\* the loop of the command, line 578), the last one first.
EnqueueMultipleOneByOne(s, tracks, enqueueAtStart) ==
    LET shuffled == IF s.playbackFlags.shuffle THEN ShuffleQueue(tracks)
                    ELSE {tracks}
        reversed(ts) == [k \in 1..Len(ts) |-> ts[Len(ts) + 1 - k]]
        queued(ts) ==
            IF enqueueAtStart
            THEN PlayerUnpause(SkipTrack([s EXCEPT
                                            !.queue = reversed(ts) \o @]))
            ELSE {[s EXCEPT !.queue = @ \o ts]}
    IN UNION { UNION { ProcessQueue(s2) : s2 \in queued(ts) } :
                 ts \in shuffled }

\* enqueueMultiple
EnqueueMultiple(s, tracks, enqueueAtStart) ==
    LET shuffled == IF s.playbackFlags.shuffle THEN ShuffleQueue(tracks)
                    ELSE {tracks}
        queued(ts) ==
            IF enqueueAtStart
            THEN PlayerUnpause(SkipTrack([s EXCEPT !.queue = ts \o @]))
            ELSE {[s EXCEPT !.queue = @ \o ts]}
    IN UNION { UNION { ProcessQueue(s2) : s2 \in queued(ts) } :
                 ts \in shuffled }

\* The forEach of line 258 from entry k on, totalTimeSeconds so far given.
RECURSIVE TotalTimeSeconds(_, _, _)
TotalTimeSeconds(s, k, totalTimeSeconds) ==
    IF k > Len(s.queue) THEN totalTimeSeconds
    ELSE TotalTimeSeconds(s, k + 1,
                          totalTimeSeconds + s.lengthSeconds[s.queue[k]])

\* getQueueLength with the descriptor being played counted as well.
GetQueueLengthWithCurrent(s) ==
    CalcTimeHMS(TotalTimeSeconds(s, 1, IF s.currentObject # NoTrack
                                       THEN s.lengthSeconds[s.currentObject]
                                       ELSE 0))

\* getQueueLength
GetQueueLength(s) == CalcTimeHMS(TotalTimeSeconds(s, 1, 0))

\* processQueue resumed after the await, giving the resource up when a skip
\* was asked for in the meantime.
ResolvedUnlessSkipped(s, i) ==
    LET nextTrack == s.pending[i]
        s1 == [s EXCEPT !.pending = RemoveAt(@, i)]
    IN IF s.skippedSong
       THEN [s1 EXCEPT !.queueLock = FALSE, !.skippedSong = FALSE]
       ELSE [PlayerPlay([s1 EXCEPT !.currentObject = nextTrack], nextTrack)
                EXCEPT !.queueLock = FALSE]

\* processQueue resumed after the await, playing the resource without the
\* assignment of line 299.
ResolvedWithoutCurrent(s, i) ==
    LET nextTrack == s.pending[i]
        s1 == [s EXCEPT !.pending = RemoveAt(@, i)]
    IN [PlayerPlay(s1, nextTrack) EXCEPT !.queueLock = FALSE]

\* processQueue resumed after the await of line 294 succeeded (295-301).
Resolved(s, i) ==
    LET nextTrack == s.pending[i]
        s1 == [s EXCEPT !.pending = RemoveAt(@, i),
                        !.currentObject = nextTrack]
    IN [PlayerPlay(s1, nextTrack) EXCEPT !.queueLock = FALSE]

\* processQueue resumed after the await of line 294 threw (302-307).
Rejected(s, i) ==
    LET nextTrack == s.pending[i]
        s1 == InvokeHook([s EXCEPT !.pending = RemoveAt(@, i)],
                         nextTrack, "onError")
    IN ProcessQueue([s1 EXCEPT !.queueLock = FALSE])

\* audioPlayer.stop(true): the player goes Idle at once, and the listener
\* of lines 103-113 runs inside the call.
PlayerStopForce(s) ==
    IF s.status = "Idle" THEN {s}
    ELSE StateChange([s EXCEPT !.status = "Idle", !.resource = NoTrack,
                               !.stopping = FALSE],
                     s.status, s.resource)

\* stop (lines 251-254)
Stop(s) == PlayerStopForce([s EXCEPT !.queue = <<>>])

\* The fields a new SoundsmithConnection starts with (lines 35-49); the
\* descriptors of the command layer and what is recorded are not its fields.
NewSession(s) ==
    [s EXCEPT !.queue = <<>>, !.queueLock = FALSE, !.currentObject = NoTrack,
              !.skippedSong = FALSE,
              !.playbackFlags = [repeat |-> FALSE, loop |-> FALSE,
                                 shuffle |-> FALSE],
              !.status = "Idle", !.resource = NoTrack, !.stopping = FALSE,
              !.pending = <<>>, !.fault = FALSE]

----------------------------------------------------------------------------
\* The state after new SoundsmithConnection(...) (lines 37-49), no
\* descriptor constructed yet.
InitSession ==
    /\ queue = <<>>
    /\ queueLock = FALSE
    /\ currentObject = NoTrack
    /\ skippedSong = FALSE
    /\ playbackFlags = [repeat |-> FALSE, loop |-> FALSE, shuffle |-> FALSE]
    /\ status = "Idle"
    /\ resource = NoTrack
    /\ stopping = FALSE
    /\ pending = <<>>
    /\ nextId = 1
    /\ hooks = [h \in HookNames |-> "none"]
    /\ wrappedMethods = [h \in HookNames |-> "none"]
    /\ calls = [h \in HookNames |-> 0]
    /\ invoked = [h \in HookNames |-> 0]
    /\ startOrder = <<>>
    /\ fault = FALSE
    /\ lastOp = [name |-> "new", arg |-> <<>>, ret |-> "void"]
    /\ queueLengthText = <<>>
    /\ stopped = {}

\* Every video has the same length.
SameLengths == [t \in Tracks |-> 65]

\* The one guild of the model.
Guild == "guild"

\* The session has been registered (line 922) and its VoiceConnection has
\* become Ready; no play command is waiting for it.
Joined ==
    /\ voiceConnections = {Guild}
    /\ voiceConnection = [status |-> "Ready", rejoinAttempts |-> 0,
                          closeCode |-> 0]
    /\ readyLock = FALSE
    /\ awaiting = "none"

Init ==
    /\ InitSession
    /\ Joined
    /\ observe = [probe |-> NoTrack, order |-> FALSE, op |-> FALSE,
                  stop |-> FALSE]
    /\ lengthSeconds = SameLengths

\* The same session, with the order of first plays recorded.
InitFifo ==
    /\ InitSession
    /\ Joined
    /\ observe = [probe |-> NoTrack, order |-> TRUE, op |-> FALSE,
                  stop |-> FALSE]
    /\ lengthSeconds = SameLengths

\* The same session, with the hooks of one descriptor followed.
InitHooks ==
    /\ InitSession
    /\ Joined
    /\ \E t \in Tracks : observe = [probe |-> t, order |-> FALSE, op |-> FALSE,
                  stop |-> FALSE]
    /\ lengthSeconds = SameLengths

\* The same session, with the last operation recorded.
InitSkip ==
    /\ InitSession
    /\ Joined
    /\ observe = [probe |-> NoTrack, order |-> FALSE, op |-> TRUE,
                  stop |-> FALSE]
    /\ lengthSeconds = SameLengths

\* The same session, with videos of any of the lengths of Durations.
InitDuration ==
    /\ InitSession
    /\ Joined
    /\ observe = [probe |-> NoTrack, order |-> FALSE, op |-> TRUE,
                  stop |-> FALSE]
    /\ lengthSeconds \in [Tracks -> Durations]

\* The same session, with the descriptors held at each stopQueue recorded.
InitStop ==
    /\ InitSession
    /\ Joined
    /\ observe = [probe |-> NoTrack, order |-> FALSE, op |-> TRUE,
                  stop |-> TRUE]
    /\ lengthSeconds = SameLengths

Op(name, arg, ret) == [name |-> name, arg |-> arg, ret |-> ret]

BoolStr(b) == IF b THEN "true" ELSE "false"

BoolNum(b) == IF b THEN 1 ELSE 0

\* commandPlay with one video, not 'now': SoundObject.from, then enqueue.
DoEnqueue ==
    /\ nextId <= NTracks
    /\ \E r \in Enqueue(SoundObjectFrom(St, nextId), nextId) : Commit(r)
    /\ Record(Op("enqueue", <<nextId>>, "void"))

\* commandPlay with now=yes, commandAmbient: SoundObject.from, enqueueStart.
DoEnqueueStart ==
    /\ nextId <= NTracks
    /\ \E r \in EnqueueStart(SoundObjectFrom(St, nextId), nextId) : Commit(r)
    /\ Record(Op("enqueueStart", <<nextId>>, "void"))

\* The loop of lines 566-579: one SoundObject.from per video.
RECURSIVE SoundObjectsFrom(_, _, _)
SoundObjectsFrom(s, tracks, k) ==
    IF k > Len(tracks) THEN s
    ELSE SoundObjectsFrom(SoundObjectFrom(s, tracks[k]), tracks, k + 1)

\* commandPlay with a playlist of one to MaxBatch videos.
DoEnqueueMultiple ==
    \E n \in 1..MaxBatch, enqueueAtStart \in BOOLEAN :
        /\ nextId + n - 1 <= NTracks
        /\ LET tracks == [k \in 1..n |-> nextId + k - 1]
               s0 == SoundObjectsFrom(St, tracks, 1)
           IN /\ \E r \in EnqueueMultiple(s0, tracks, enqueueAtStart) :
                    Commit(r)
              /\ Record(Op("enqueueMultiple",
                           <<nextId, BoolNum(enqueueAtStart), n>>, "void"))

\* commandSkip without a target, or with target 0.
DoSkipTrack ==
    /\ Commit(SkipTrack(St))
    /\ Record(Op("skipTrack", <<>>, "void"))

DoSkipMultipleTracks ==
    \E numTracks \in 1..MaxSkip :
        /\ Commit(SkipMultipleTracks(St, numTracks))
        /\ Record(Op("skipMultipleTracks", <<numTracks>>, "void"))

DoSkipRangeTracks ==
    \E skipStart \in 0..(NTracks + 1), skipEnd \in 0..(NTracks + 1) :
        /\ Commit(SkipRangeTracks(St, skipStart, skipEnd))
        /\ Record(Op("skipRangeTracks", <<skipStart, skipEnd>>,
                     IF SkipRangeThrows(St, skipStart, skipEnd)
                     THEN "TypeError" ELSE "void"))

\* commandStop
DoStopQueue ==
    /\ Commit(StopQueue(St))
    /\ Record(Op("stopQueue", <<>>, BoolStr(StopQueueReturns(St))))

\* commandRepeat, commandLoop, commandShuffle
DoSetFlagRepeat ==
    \E flag \in BOOLEAN :
        /\ Commit(SetFlagRepeat(St, flag))
        /\ Record(Op("setFlagRepeat", <<BoolNum(flag)>>,
                     BoolStr(SetFlagRepeatReturns(St, flag))))

DoSetFlagLoop ==
    \E flag \in BOOLEAN :
        /\ Commit(SetFlagLoop(St, flag))
        /\ Record(Op("setFlagLoop", <<BoolNum(flag)>>,
                     BoolStr(SetFlagLoopReturns(St, flag))))

DoSetFlagShuffle ==
    \E flag \in BOOLEAN :
        /\ \E r \in SetFlagShuffle(St, flag) : Commit(r)
        /\ Record(Op("setFlagShuffle", <<BoolNum(flag)>>,
                     BoolStr(SetFlagShuffleReturns(St, flag))))

\* commandPause, commandResume
DoPause ==
    /\ status = "Playing"
    /\ \E r \in PlayerPause(St) : Commit(r)
    /\ Record(Op("pause", <<>>, "true"))

DoResume ==
    /\ status = "Paused"
    /\ \E r \in PlayerUnpause(St) : Commit(r)
    /\ Record(Op("unpause", <<>>, "true"))

\* getQueueLength(), as commandQueue calls it for the total of line 770.
DoGetQueueLength ==
    /\ Commit([St EXCEPT !.queueLengthText = GetQueueLength(St)])
    /\ Record(Op("getQueueLength", <<>>, "string"))

\* The stream of a suspended processQueue arrives, or fails to.
ResolveOk ==
    \E i \in 1..Len(pending) :
        /\ Commit(Resolved(St, i))
        /\ Record(Op("resolved", <<pending[i]>>, "void"))

ResolveFail ==
    \E i \in 1..Len(pending) :
        /\ \E r \in Rejected(St, i) : Commit(r)
        /\ Record(Op("rejected", <<pending[i]>>, "void"))

\* The audio player starts to play the resource it was given.
PlayerPlaying ==
    /\ status = "Buffering"
    /\ \E r \in StateChange([St EXCEPT !.status = "Playing"],
                            status, resource) : Commit(r)
    /\ Record(Op("Playing", <<resource>>, "void"))

\* The audio player goes Idle: the resource has ended, or the padding of a
\* stop() has been played out.
PlayerIdle ==
    /\ status = "Playing"
    /\ \E r \in StateChange([St EXCEPT !.status = "Idle",
                                       !.resource = NoTrack,
                                       !.stopping = FALSE],
                            status, resource) : Commit(r)
    /\ Record(Op("Idle", <<resource, BoolNum(stopping)>>, "void"))

Next ==
    \/ DoEnqueue
    \/ DoEnqueueStart
    \/ DoEnqueueMultiple
    \/ DoSkipTrack
    \/ DoSkipMultipleTracks
    \/ DoSkipRangeTracks
    \/ DoStopQueue
    \/ DoSetFlagRepeat
    \/ DoSetFlagLoop
    \/ DoSetFlagShuffle
    \/ DoPause
    \/ DoResume
    \/ ResolveOk
    \/ ResolveFail
    \/ PlayerPlaying
    \/ PlayerIdle

Spec == Init /\ [][Next]_vars

\* Only enqueue calls, with the repeat and loop flags, pause and resume.
NextFifo ==
    \/ DoEnqueue
    \/ DoSetFlagRepeat
    \/ DoSetFlagLoop
    \/ DoPause
    \/ DoResume
    \/ ResolveOk
    \/ ResolveFail
    \/ PlayerPlaying
    \/ PlayerIdle

SpecFifo == InitFifo /\ [][NextFifo]_vars

\* The operations under which a descriptor is played, replayed and skipped.
NextHooks ==
    \/ DoEnqueue
    \/ DoSkipTrack
    \/ DoSetFlagRepeat
    \/ DoSetFlagLoop
    \/ DoPause
    \/ DoResume
    \/ ResolveOk
    \/ ResolveFail
    \/ PlayerPlaying
    \/ PlayerIdle

SpecHooks == InitHooks /\ [][NextHooks]_vars

\* enqueue and the skips that force the player to stop.
NextSkip ==
    \/ DoEnqueue
    \/ DoSkipTrack
    \/ DoSkipMultipleTracks
    \/ DoSetFlagRepeat
    \/ DoSetFlagLoop
    \/ DoPause
    \/ DoResume
    \/ ResolveOk
    \/ ResolveFail
    \/ PlayerPlaying
    \/ PlayerIdle

SpecSkip == InitSkip /\ [][NextSkip]_vars

\* enqueue and the removal of a range of queue entries.
NextRange ==
    \/ DoEnqueue
    \/ DoSkipRangeTracks
    \/ DoSetFlagRepeat
    \/ ResolveOk
    \/ ResolveFail
    \/ PlayerPlaying
    \/ PlayerIdle

SpecRange == InitSkip /\ [][NextRange]_vars

\* enqueue, stopQueue, skipTrack, pause and the three playback flags.
NextFlags ==
    \/ DoEnqueue
    \/ DoStopQueue
    \/ DoSetFlagRepeat
    \/ DoSetFlagLoop
    \/ DoSetFlagShuffle
    \/ DoSkipTrack
    \/ DoPause
    \/ DoResume
    \/ ResolveOk
    \/ ResolveFail
    \/ PlayerPlaying
    \/ PlayerIdle

SpecFlags == InitSkip /\ [][NextFlags]_vars

\* enqueue, and the queue shown with its total length.
NextDuration ==
    \/ DoEnqueue
    \/ DoGetQueueLength
    \/ ResolveOk
    \/ PlayerPlaying
    \/ PlayerIdle

SpecDuration == InitDuration /\ [][NextDuration]_vars

\* enqueue at the tail, at the head and in batches, under any flags.
NextFront ==
    \/ DoEnqueue
    \/ DoEnqueueStart
    \/ DoEnqueueMultiple
    \/ DoSetFlagRepeat
    \/ DoSetFlagLoop
    \/ DoSetFlagShuffle
    \/ ResolveOk
    \/ ResolveFail
    \/ PlayerPlaying
    \/ PlayerIdle

SpecFront == InitSkip /\ [][NextFront]_vars

\* Playback with no skip and no failing resolution, under any flags.
NextLoop ==
    \/ DoEnqueue
    \/ DoSetFlagRepeat
    \/ DoSetFlagLoop
    \/ DoSetFlagShuffle
    \/ DoPause
    \/ DoResume
    \/ ResolveOk
    \/ PlayerPlaying
    \/ PlayerIdle

SpecLoop == Init /\ [][NextLoop]_vars

----------------------------------------------------------------------------
\* commandSkip with a target.

\* The largest number a user types in the model: one past every queue length.
SkipTargets == 0..(NTracks + 1)

\* lower and higher without the clamping of lines 700-701.
SkipRangeUnclamped(s, first, second) ==
    <<Min(first, second), Max(first, second)>>

\* lower and higher of lines 700-701.
SkipRangeClamped(s, first, second) ==
    <<Max(0, Min(Min(first, second), Len(s.queue))),
      Min(Len(s.queue), Max(Max(first, second), 1))>>

\* commandSkip with target "first-second" (lines 689-706).
CommandSkipRange ==
    \E first \in SkipTargets, second \in SkipTargets :
        LET bounds == SkipRangeClamped(St, first, second)
        IN /\ Commit(SkipRangeTracks(St, bounds[1], bounds[2]))
           /\ Record(Op("commandSkipRange", <<first, second>>,
                        IF SkipRangeThrows(St, bounds[1], bounds[2])
                        THEN "TypeError" ELSE "Skipped"))

\* number of line 709
SkipIndexNumber(s, target) == Min(target, Len(s.queue))

\* commandSkip with a target of digits only (lines 708-732): the session
\* after the command, and the reply.
CommandSkipIndexDoes(s, target) ==
    LET number == SkipIndexNumber(s, target)
    IN IF number = 0 THEN SkipTrack(s)
       ELSE IF number <= Len(s.queue)
            THEN SkipRangeTracks(s, number, number)
            ELSE s

CommandSkipIndexReplies(s, target) ==
    LET number == SkipIndexNumber(s, target)
    IN IF number = 0 THEN "Skipped track"
       ELSE IF number <= Len(s.queue)
            THEN IF SkipRangeThrows(s, number, number)
                 THEN "Something went wrong" ELSE "Skipped track #"
            ELSE "Please enter a track index that exists within the queue."

CommandSkipIndex ==
    \E target \in SkipTargets :
        /\ Commit(CommandSkipIndexDoes(St, target))
        /\ Record(Op("commandSkipIndex", <<target, Len(queue)>>,
                     CommandSkipIndexReplies(St, target)))

NextCommand ==
    \/ DoEnqueue
    \/ CommandSkipRange
    \/ CommandSkipIndex
    \/ DoSetFlagRepeat
    \/ ResolveOk
    \/ ResolveFail
    \/ PlayerPlaying
    \/ PlayerIdle

SpecCommand == InitSkip /\ [][NextCommand]_vars

----------------------------------------------------------------------------
\* The session with repeat left clear, every resolution sooner or later
\* succeeding or failing and the audio player sooner or later making the
\* transition it is due to make.

NextLive ==
    \/ DoEnqueue
    \/ DoSkipTrack
    \/ DoStopQueue
    \/ DoSetFlagLoop
    \/ DoSetFlagShuffle
    \/ ResolveOk
    \/ ResolveFail
    \/ PlayerPlaying
    \/ PlayerIdle

SpecLive ==
    /\ InitSkip
    /\ [][NextLive]_vars
    /\ WF_vars(ResolveOk \/ ResolveFail)
    /\ WF_vars(PlayerPlaying)
    /\ WF_vars(PlayerIdle)

----------------------------------------------------------------------------
\* The session with a resolution in flight sooner or later failing unless it
\* succeeds first.

NextRetry ==
    \/ DoEnqueue
    \/ DoSetFlagRepeat
    \/ DoSetFlagLoop
    \/ ResolveOk
    \/ ResolveFail
    \/ PlayerPlaying
    \/ PlayerIdle

SpecRetry == InitSkip /\ [][NextRetry]_vars /\ WF_vars(ResolveFail)

----------------------------------------------------------------------------
\* The session with stopQueue followed.

NextStop ==
    \/ DoEnqueue
    \/ DoStopQueue
    \/ DoSkipTrack
    \/ DoSetFlagRepeat
    \/ DoSetFlagLoop
    \/ ResolveOk
    \/ ResolveFail
    \/ PlayerPlaying
    \/ PlayerIdle

SpecStop == InitStop /\ [][NextStop]_vars


\* this.voiceConnection.rejoinAttempts < 5 (line 68)
MaxRejoin == 5

\* The close code of a disconnect the handler does not wait out (line 53),
\* and one of those it does not treat specially.
CloseCodes == {4014, 1006}

\* voiceConnections.get(interaction.guildId) is not undefined (line 497).
Registered == Guild \in voiceConnections

\* No session has been constructed yet: the session variables hold what the
\* constructor will give them.
InitLife ==
    /\ InitSession
    /\ observe = [probe |-> NoTrack, order |-> FALSE, op |-> TRUE,
                  stop |-> FALSE]
    /\ lengthSeconds = SameLengths
    /\ voiceConnections = {}
    /\ voiceConnection = [status |-> "None", rejoinAttempts |-> 0,
                          closeCode |-> 0]
    /\ readyLock = FALSE
    /\ awaiting = "none"

\* voiceConnection.destroy() on a connection that is not Destroyed: the state
\* change runs the Destroyed branch of the handler (lines 80-84), this.stop().
Destroy ==
    /\ voiceConnection' = [voiceConnection EXCEPT !.status = "Destroyed"]
    /\ \E r \in Stop(St) : CommitSession(r)

\* commandPlay without a session in the registry (lines 535-536): the
\* constructor, the registration of line 922, then the wait of line 940.
\* joinVoiceChannel gives a connection that is Signalling before the handler
\* of line 51 is attached.
JoinChannel ==
    /\ ~Registered
    /\ awaiting = "none"
    /\ nextId <= NTracks
    /\ CommitSession(NewSession(St))
    /\ voiceConnections' = voiceConnections \cup {Guild}
    /\ voiceConnection' = [status |-> "Signalling", rejoinAttempts |-> 0,
                           closeCode |-> 0]
    /\ readyLock' = FALSE
    /\ awaiting' = "waiting"
    /\ Record(Op("join", <<>>, "void"))

\* commandPlay with a session in the registry: the wait of line 940 is over
\* at once when the connection is Ready.
CommandPlay ==
    /\ Registered
    /\ awaiting = "none"
    /\ nextId <= NTracks
    /\ awaiting' = IF voiceConnection.status = "Ready"
                   THEN "ready" ELSE "waiting"
    /\ CommitSession(St)
    /\ UNCHANGED <<voiceConnections, voiceConnection, readyLock>>
    /\ Record(Op("play", <<>>, "void"))

\* commandPlay after userInVoiceAndConnectionStable returned true: the
\* descriptor is constructed and enqueued in the session the command holds.
PlayEnqueue ==
    /\ awaiting = "ready"
    /\ nextId <= NTracks
    /\ \E r \in Enqueue(SoundObjectFrom(St, nextId), nextId) : CommitSession(r)
    /\ awaiting' = "none"
    /\ UNCHANGED <<voiceConnections, voiceConnection, readyLock>>
    /\ Record(Op("enqueue", <<nextId>>, "void"))

\* The 20 seconds of line 940 are over: the catch block of lines 941-945
\* replies and the command returns.
PlayTimeout ==
    /\ awaiting = "waiting"
    /\ voiceConnection.status # "Ready"
    /\ awaiting' = "none"
    /\ CommitSession(St)
    /\ UNCHANGED <<voiceConnections, voiceConnection, readyLock>>
    /\ Record(Op("play", <<>>, "Failed to join voice channel"))

\* The connection goes from Signalling to Connecting; the handler takes
\* readyLock and starts to wait for Ready (lines 85-93).
ConnectionConnecting ==
    /\ voiceConnection.status = "Signalling"
    /\ voiceConnection' = [voiceConnection EXCEPT !.status = "Connecting"]
    /\ readyLock' = TRUE
    /\ CommitSession(St)
    /\ UNCHANGED <<voiceConnections, awaiting>>
    /\ Record(Op("Connecting", <<>>, "void"))

\* The connection becomes Ready: rejoinAttempts starts again from 0, and
\* the waits of lines 93 and 940 are over.
ConnectionReady ==
    /\ voiceConnection.status = "Connecting"
    /\ voiceConnection' = [voiceConnection EXCEPT !.status = "Ready",
                                                  !.rejoinAttempts = 0]
    /\ readyLock' = FALSE
    /\ awaiting' = IF awaiting = "waiting" THEN "ready" ELSE awaiting
    /\ CommitSession(St)
    /\ UNCHANGED voiceConnections
    /\ Record(Op("Ready", <<>>, "void"))

\* The 20 seconds of line 93 are over (lines 94-98).
ReadyTimeout ==
    /\ readyLock
    /\ voiceConnection.status # "Ready"
    /\ IF voiceConnection.status # "Destroyed"
       THEN Destroy
       ELSE CommitSession(St) /\ UNCHANGED voiceConnection
    /\ readyLock' = FALSE
    /\ UNCHANGED <<voiceConnections, awaiting>>
    /\ Record(Op("readyTimeout", <<>>, "void"))

\* The connection is disconnected.  With another close code than 4014 and
\* no rejoin attempt left the handler destroys it at once (line 78).
Disconnect ==
    \E closeCode \in CloseCodes :
        /\ voiceConnection.status \in {"Signalling", "Connecting", "Ready"}
        /\ IF closeCode # 4014
              /\ voiceConnection.rejoinAttempts >= MaxRejoin
           THEN /\ voiceConnection' =
                      [voiceConnection EXCEPT !.status = "Destroyed",
                                              !.closeCode = closeCode]
                /\ \E r \in Stop(St) : CommitSession(r)
           ELSE /\ voiceConnection' =
                      [voiceConnection EXCEPT !.status = "Disconnected",
                                              !.closeCode = closeCode]
                /\ CommitSession(St)
        /\ UNCHANGED <<voiceConnections, readyLock, awaiting>>
        /\ Record(Op("Disconnected", <<closeCode>>,
                     IF voiceConnection'.status = "Destroyed"
                     THEN "destroyed" ELSE "void"))

\* Close code 4014 and the bot was moved to another channel: the connection
\* is Connecting within the 5 seconds of line 62.
Moved ==
    /\ voiceConnection.status = "Disconnected"
    /\ voiceConnection.closeCode = 4014
    /\ voiceConnection' = [voiceConnection EXCEPT !.status = "Connecting"]
    /\ readyLock' = TRUE
    /\ CommitSession(St)
    /\ UNCHANGED <<voiceConnections, awaiting>>
    /\ Record(Op("moved", <<>>, "void"))

\* Close code 4014 and the bot was removed from the channel: the 5 seconds
\* of line 62 are over and the handler destroys the connection (line 65).
Kicked ==
    /\ voiceConnection.status = "Disconnected"
    /\ voiceConnection.closeCode = 4014
    /\ Destroy
    /\ UNCHANGED <<voiceConnections, readyLock, awaiting>>
    /\ Record(Op("kicked", <<>>, "destroyed"))

\* Another close code with a rejoin attempt left (lines 68-73): rejoin()
\* counts the attempt and the connection is Signalling again.
Rejoin ==
    /\ voiceConnection.status = "Disconnected"
    /\ voiceConnection.closeCode # 4014
    /\ voiceConnection.rejoinAttempts < MaxRejoin
    /\ voiceConnection' = [voiceConnection EXCEPT !.status = "Signalling",
                                                  !.rejoinAttempts = @ + 1]
    /\ readyLock' = TRUE
    /\ CommitSession(St)
    /\ UNCHANGED <<voiceConnections, awaiting>>
    /\ Record(Op("rejoin", <<>>, "void"))

\* commandLeave (lines 823-830).  destroy() throws on a connection that is
\* Destroyed already, and the command ends before line 826.
CommandLeave ==
    /\ Registered
    /\ IF voiceConnection.status = "Destroyed"
       THEN /\ CommitSession(St)
            /\ UNCHANGED <<voiceConnections, voiceConnection>>
       ELSE /\ Destroy
            /\ voiceConnections' = voiceConnections \ {Guild}
    /\ UNCHANGED <<readyLock, awaiting>>
    /\ Record(Op("leave", <<>>,
                 IF voiceConnection.status = "Destroyed"
                 THEN "Error" ELSE "Goodbye world!"))

\* commandRepeat and commandSkip on the session of the registry.
CommandRepeat == Registered /\ DoSetFlagRepeat

CommandSkip == Registered /\ DoSkipTrack

NextLife ==
    \/ JoinChannel
    \/ CommandPlay
    \/ PlayEnqueue
    \/ PlayTimeout
    \/ ConnectionConnecting
    \/ ConnectionReady
    \/ ReadyTimeout
    \/ Disconnect
    \/ Moved
    \/ Kicked
    \/ Rejoin
    \/ CommandLeave
    \/ CommandRepeat
    \/ CommandSkip
    \/ ResolveOk
    \/ PlayerPlaying
    \/ PlayerIdle

SpecLife == InitLife /\ [][NextLife]_vars

TypeOK ==
    /\ Range(queue) \subseteq Tracks
    /\ queueLock \in BOOLEAN
    /\ currentObject \in Tracks \cup {NoTrack}
    /\ status \in {"Idle", "Buffering", "Playing", "Paused"}
    /\ lengthSeconds \in [Tracks -> Nat]

----------------------------------------------------------------------------
\* C1: descriptors are constructed and enqueued in the order 1, 2, 3, ...;
\* with only enqueue calls (no skip, no stop, shuffle off) the order in which
\* descriptors are first played is the order in which they were enqueued:
\* no descriptor is first played after one that was enqueued later.
C1_FifoOrder ==
    \A i, j \in 1..Len(startOrder) : i < j => startOrder[i] < startOrder[j]

\* Three descriptors have been played, one after the other.
C1_Witness == Len(startOrder) >= 3 /\ ~playbackFlags.shuffle

\* The step in which a suspended processQueue resumes and calls play().
C2_PlaybackStarts == status' = "Buffering" /\ Len(pending') < Len(pending)

\* C2: at most one processQueue is suspended at its await at any time; while
\* it is, the lock is held and the player stays Idle, no other call of
\* processQueue (from enqueue, a skip or the Idle transition) gets past the
\* guard to pop the queue, and play() is only ever called on an Idle player.
C2_OneAdvance ==
    /\ [](Len(pending) <= 1)
    /\ [](pending # <<>> => queueLock /\ status = "Idle")
    /\ [][/\ C2_PlaybackStarts => status = "Idle"
          /\ (pending # <<>> /\ pending' = pending) => fault' = fault]_vars

\* A skip was requested while a processQueue was suspended (skippedSong is
\* cleared before the await), with tracks waiting in the queue.
C2_Witness == Len(pending) = 1 /\ skippedSong /\ Len(queue) >= 1

\* C3: queueLock is set only while a processQueue is suspended at its await,
\* so every way out of processQueue has released it.
C3_LockOnlyWhileResolving == queueLock => Len(pending) = 1


\* C4: a hook of a descriptor made by SoundObject.from that has been invoked
\* once or more has called the requester's callback exactly once.
C4_HookOnce ==
    \A h \in HookNames : invoked[h] >= 1 => calls[h] = 1

\* C5: over a run, each of the requester's callbacks of a descriptor runs at
\* most once, whatever transitions the player reports.
C5_CallbackAtMostOnce ==
    \A h \in HookNames : calls[h] <= 1

\* The step in which the suspended processQueue number i resumes in its
\* catch block.
C6_FailStep(i) == \E r \in Rejected(St, i) : Commit(r)

\* C6: when the await fails for a descriptor taken from the queue (not the
\* current one played again), its onError is invoked once, no error leaves
\* processQueue, and if the queue holds another descriptor the same step
\* goes on to resolve the head of the queue.
C6_FailedHeadIsSkipped ==
    [][\A i \in 1..Len(pending) :
         (C6_FailStep(i) /\ pending[i] # currentObject) =>
            /\ pending[i] = observe.probe =>
                   /\ invoked'["onError"] = Bump(invoked["onError"])
                   /\ calls'["onError"] = Bump(calls["onError"])
            /\ fault' = fault
            /\ queue # <<>> => pending' = <<Head(queue)>>]_vars

\* The player goes from Playing to Idle and no stop() had been asked for.
C7_EndsByItself == status = "Playing" /\ status' = "Idle" /\ ~stopping

\* C7: when the current descriptor ends by itself and repeat is set, or loop
\* is set and the queue is empty, processQueue selects the current
\* descriptor again and leaves the queue as it is.
C7_RepeatReplaysCurrent ==
    [][(/\ C7_EndsByItself
        /\ currentObject # NoTrack
        /\ (playbackFlags.repeat \/ (queue = <<>> /\ playbackFlags.loop)))
       => (pending' = <<currentObject>> /\ queue' = queue)]_vars

\* C8: when a descriptor that has already been played is played again under
\* repeat, the Playing transition does not run the requester's onStart again.
C8_ReplayKeepsOnStartSilent ==
    [][(/\ status = "Buffering" /\ status' = "Playing"
        /\ resource = observe.probe
        /\ playbackFlags.repeat /\ ~playbackFlags.loop
        /\ invoked["onStart"] >= 1)
       => calls'["onStart"] = calls["onStart"]]_vars

\* The player goes Idle after a skip was requested, with tracks waiting.
C9_ForcedIdle ==
    status = "Playing" /\ status' = "Idle" /\ skippedSong /\ queue # <<>>

\* C9: skipTrack() on a Playing player with a non-empty queue sets
\* skippedSong and asks the player to stop, and changes nothing else; when
\* the player then goes Idle, processQueue takes the head of the queue and
\* not the current descriptor, whatever the repeat and loop flags are.
C9_SkipPlaysHead ==
    [][/\ (lastOp'.name = "skipTrack" /\ status = "Playing" /\ queue # <<>>)
          => /\ skippedSong' /\ stopping'
             /\ UNCHANGED <<queue, status, resource, currentObject, pending,
                            queueLock, playbackFlags>>
       /\ C9_ForcedIdle
          => /\ pending' = <<Head(queue)>>
             /\ currentObject' = currentObject
             /\ ~skippedSong']_vars

\* skipTrack() has run on a Playing player with repeat set and a track
\* waiting in the queue.
C9_Witness ==
    /\ lastOp.name = "skipTrack"
    /\ status = "Playing" /\ stopping /\ skippedSong
    /\ playbackFlags.repeat
    /\ queue # <<>>

\* C10: skipMultipleTracks(n), n >= 1, removes the first min(n-1, length)
\* entries of the queue and keeps the others in order, then does what
\* skipTrack() does; on a Playing player with n <= length the head of the
\* queue is then the descriptor that was at position n, and it is the one
\* processQueue takes when the player goes Idle.
C10_SkipCount ==
    [][\A n \in 1..MaxSkip :
         /\ lastOp' = [name |-> "skipMultipleTracks", arg |-> <<n>>,
                       ret |-> "void"]
            => /\ queue' = SubSeq(queue, Min(n - 1, Len(queue)) + 1, Len(queue))
               /\ skippedSong'
               /\ stopping' = (stopping \/ status # "Idle")
               /\ UNCHANGED <<status, resource, currentObject, pending,
                              queueLock, playbackFlags>>
               /\ (status = "Playing" /\ n <= Len(queue))
                  => (queue' # <<>> /\ Head(queue') = queue[n])
         /\ (/\ lastOp = [name |-> "skipMultipleTracks", arg |-> <<n>>,
                          ret |-> "void"]
             /\ status = "Playing" /\ status' = "Idle" /\ queue # <<>>)
            => pending' = <<Head(queue)>>]_vars

\* skipMultipleTracks(2) has run on a Playing player whose queue held two
\* entries or more.
C10_Witness ==
    /\ lastOp = [name |-> "skipMultipleTracks", arg |-> <<2>>, ret |-> "void"]
    /\ status = "Playing" /\ stopping /\ skippedSong
    /\ Len(queue) >= 1

\* skipRangeTracks(lo, hi) has just run without a TypeError.
C11_RangeStep(lo, hi) ==
    lastOp' = [name |-> "skipRangeTracks", arg |-> <<lo, hi>>, ret |-> "void"]

\* C11: skipRangeTracks(lo, hi) with 1 <= lo and hi <= queue.length removes
\* the entries at the 1-based positions lo..hi of the queue (none when
\* hi < lo), keeps the other entries in their order, does not throw, and
\* leaves currentObject, the player, skippedSong, queueLock and the flags as
\* they were.
C11_RangeIsQueueEdit ==
    [][\A lo \in 1..(NTracks + 1), hi \in 0..(NTracks + 1) :
         (/\ lastOp'.name = "skipRangeTracks"
          /\ lastOp'.arg = <<lo, hi>>
          /\ hi <= Len(queue))
         => /\ C11_RangeStep(lo, hi)
            /\ queue' = IF hi < lo THEN queue
                        ELSE SubSeq(queue, 1, lo - 1)
                             \o SubSeq(queue, hi + 1, Len(queue))
            /\ UNCHANGED <<currentObject, status, resource, stopping,
                           skippedSong, queueLock, playbackFlags, pending,
                           fault>>]_vars

\* skipRangeTracks(2, 2) has removed the second of two queued entries
\* while the first descriptor was playing.
C11_Witness ==
    /\ lastOp = [name |-> "skipRangeTracks", arg |-> <<2, 2>>, ret |-> "void"]
    /\ Len(queue) = 1
    /\ status = "Playing"
    /\ nextId > 3

\* C12: skipRangeTracks(lo, hi) with lo > queue.length does nothing for
\* every hi: it does not throw, and the queue, currentObject, the flags,
\* skippedSong and the player are as they were.
C12_PastEndIsNoOp ==
    [][\A lo \in 1..(NTracks + 1), hi \in 0..(NTracks + 1) :
         (/\ lastOp'.name = "skipRangeTracks"
          /\ lastOp'.arg = <<lo, hi>>
          /\ lo > Len(queue))
         => /\ lastOp'.ret = "void"
            /\ UNCHANGED <<queue, currentObject, status, resource, stopping,
                           skippedSong, playbackFlags>>]_vars

\* C13: skipRangeTracks(0, hi), hi >= 0, leaves the queue, skippedSong and
\* the player as skipMultipleTracks(hi + 1) leaves them, in every state.
C13_RangeFromZeroIsSkipCount ==
    [][\A hi \in 0..(NTracks + 1) :
         (lastOp'.name = "skipRangeTracks" /\ lastOp'.arg = <<0, hi>>)
         => LET r == SkipMultipleTracks(St, hi + 1)
            IN /\ lastOp'.ret = "void"
               /\ queue' = r.queue
               /\ skippedSong' = r.skippedSong
               /\ status' = r.status
               /\ resource' = r.resource
               /\ stopping' = r.stopping]_vars

\* skipRangeTracks(0, 1) has run on a Playing player with two entries in
\* the queue: one entry is gone and the player has been asked to stop.
C13_Witness ==
    /\ lastOp = [name |-> "skipRangeTracks", arg |-> <<0, 1>>, ret |-> "void"]
    /\ status = "Playing" /\ stopping /\ skippedSong
    /\ Len(queue) = 1
    /\ nextId > 3

\* C14: stopQueue() returns false and changes nothing exactly when the queue
\* is empty and the player is Idle; in every other state it empties the
\* queue, does what skipTrack() does (skippedSong set, the player asked to
\* stop) and returns true.
C14_StopAll ==
    [][lastOp'.name = "stopQueue"
       => IF queue = <<>> /\ status = "Idle"
          THEN /\ lastOp'.ret = "false"
               /\ UNCHANGED <<queue, currentObject, status, resource,
                              stopping, skippedSong, queueLock,
                              playbackFlags, pending, fault>>
          ELSE /\ lastOp'.ret = "true"
               /\ queue' = <<>>
               /\ skippedSong'
               /\ stopping' = (status # "Idle")
               /\ UNCHANGED <<currentObject, status, resource, queueLock,
                              playbackFlags, pending, fault>>]_vars

\* stopQueue() has returned true on a Playing player whose queue was already
\* empty: the player alone made it true.
C14_Witness ==
    /\ lastOp = [name |-> "stopQueue", arg |-> <<>>, ret |-> "true"]
    /\ status = "Playing" /\ stopping /\ skippedSong
    /\ queue = <<>>
    /\ nextId = 2

\* C15: setFlagRepeat(b) and setFlagLoop(b) set their flag to b and return
\* true exactly when b differs from the value the flag had; neither changes
\* the queue, currentObject, the player or the other two flags.
C15_RepeatLoopReportChange ==
    [][\A b \in BOOLEAN :
         /\ (lastOp'.name = "setFlagRepeat" /\ lastOp'.arg = <<BoolNum(b)>>)
            => /\ playbackFlags' = [playbackFlags EXCEPT !.repeat = b]
               /\ lastOp'.ret = BoolStr(b # playbackFlags.repeat)
               /\ UNCHANGED <<queue, currentObject, status, resource,
                              stopping, skippedSong, queueLock, pending,
                              fault>>
         /\ (lastOp'.name = "setFlagLoop" /\ lastOp'.arg = <<BoolNum(b)>>)
            => /\ playbackFlags' = [playbackFlags EXCEPT !.loop = b]
               /\ lastOp'.ret = BoolStr(b # playbackFlags.loop)
               /\ UNCHANGED <<queue, currentObject, status, resource,
                              stopping, skippedSong, queueLock, pending,
                              fault>>]_vars

\* On a session that has done nothing else, repeat has been turned off
\* again and the call reported a change.
C15_Witness ==
    /\ lastOp = [name |-> "setFlagRepeat", arg |-> <<0>>, ret |-> "true"]
    /\ ~playbackFlags.repeat
    /\ nextId = 1 /\ currentObject = NoTrack

\* C16: setFlagShuffle(true) returns true whatever the flag was;
\* setFlagShuffle(false) returns true exactly when the flag was set; after
\* either call the shuffle flag is the argument.
C16_ShuffleReportsChange ==
    [][\A b \in BOOLEAN :
         (lastOp'.name = "setFlagShuffle" /\ lastOp'.arg = <<BoolNum(b)>>)
         => /\ playbackFlags'.shuffle = b
            /\ lastOp'.ret = IF b THEN "true"
                             ELSE BoolStr(playbackFlags.shuffle)]_vars

\* setFlagShuffle(false) has run with the flag already off and returned
\* false.
C16_Witness ==
    /\ lastOp = [name |-> "setFlagShuffle", arg |-> <<0>>, ret |-> "false"]
    /\ ~playbackFlags.shuffle

\* How often x occurs in q.
C17_Count(q, x) == Cardinality({i \in 1..Len(q) : q[i] = x})

\* C17: setFlagShuffle(true) leaves in the queue the descriptors that were
\* in it, each as often as before, for every queue, and setFlagShuffle(false)
\* leaves the queue as it was; neither changes currentObject, the player,
\* queueLock, skippedSong, repeat or loop.
C17_ShufflePermutes ==
    [][lastOp'.name = "setFlagShuffle"
       => /\ IF lastOp'.arg = <<1>>
             THEN /\ Len(queue') = Len(queue)
                  /\ \A x \in Tracks :
                        C17_Count(queue', x) = C17_Count(queue, x)
             ELSE queue' = queue
          /\ playbackFlags'.repeat = playbackFlags.repeat
          /\ playbackFlags'.loop = playbackFlags.loop
          /\ UNCHANGED <<currentObject, status, resource, stopping,
                         skippedSong, queueLock, pending, fault>>]_vars

\* setFlagShuffle(true) has run and the queue holds a later descriptor in
\* front of an earlier one.
C17_Witness ==
    /\ lastOp = [name |-> "setFlagShuffle", arg |-> <<1>>, ret |-> "true"]
    /\ Len(queue) >= 2
    /\ queue[1] > queue[2]

\* The fields of a text between its colons.
RECURSIVE C18_Fields(_)
C18_Fields(text) ==
    IF \A i \in 1..Len(text) : text[i] # ":" THEN <<text>>
    ELSE LET k == CHOOSE i \in 1..Len(text) :
                      text[i] = ":" /\ \A j \in 1..(i - 1) : text[j] # ":"
         IN <<SubSeq(text, 1, k - 1)>>
            \o C18_Fields(SubSeq(text, k + 1, Len(text)))

\* The number a sequence of decimal digits denotes.
RECURSIVE C18_Number(_)
C18_Number(digits) ==
    IF digits = <<>> THEN 0
    ELSE 10 * C18_Number(SubSeq(digits, 1, Len(digits) - 1))
         + (CHOOSE d \in 0..9 : DigitChars[d + 1] = digits[Len(digits)])

\* The lengths of the descriptors in the queue, and their sum.
C18_Lengths == [i \in 1..Len(queue) |-> lengthSeconds[queue[i]]]

RECURSIVE C18_Sum(_)
C18_Sum(lengths) ==
    IF lengths = <<>> THEN 0 ELSE Head(lengths) + C18_Sum(Tail(lengths))

\* C18: getQueueLength() renders the sum of lengthSeconds over the queue,
\* the descriptor being played left out: "0:00" for an empty queue,
\* "1:01:05" for a queue of lengths 65 and 3600; read back, the fields h
\* (0 when there is none), m and s of every text it returns satisfy
\* 3600h + 60m + s = the sum, with m < 60 and s < 60.  It changes nothing.
C18_TotalDuration ==
    [][lastOp'.name = "getQueueLength"
       => LET text == queueLengthText'
              fields == C18_Fields(text)
              n == Len(fields)
              h == IF n = 3 THEN C18_Number(fields[1]) ELSE 0
              m == C18_Number(fields[n - 1])
              sec == C18_Number(fields[n])
          IN /\ n \in {2, 3}
             /\ \A i \in 1..n : fields[i] # <<>>
             /\ (3600 * h) + (60 * m) + sec = C18_Sum(C18_Lengths)
             /\ m < 60 /\ sec < 60
             /\ queue = <<>> => text = <<"0", ":", "0", "0">>
             /\ C18_Lengths = <<65, 3600>>
                => text = <<"1", ":", "0", "1", ":", "0", "5">>
             /\ UNCHANGED <<queue, currentObject, status, resource,
                            stopping, skippedSong, queueLock, playbackFlags,
                            pending, fault>>]_vars

\* getQueueLength() has returned "1:01:05" for a queue of lengths 65 and
\* 3600 while another descriptor was playing.
C18_Witness ==
    /\ lastOp.name = "getQueueLength"
    /\ queueLengthText = <<"1", ":", "0", "1", ":", "0", "5">>
    /\ C18_Lengths = <<65, 3600>>
    /\ status = "Playing" /\ currentObject # NoTrack

\* C19 as the specification words it: the text getQueueLength() returns has
\* no hours field exactly when the hours are zero, and its minutes and its
\* seconds field have two digits each, for every total.
C19_AlwaysTwoDigits ==
    [][lastOp'.name = "getQueueLength"
       => LET fields == C18_Fields(queueLengthText')
              n == Len(fields)
          IN /\ (n = 2) <=> (C18_Sum(C18_Lengths) \div 3600 = 0)
             /\ (n = 3) <=> (C18_Sum(C18_Lengths) \div 3600 > 0)
             /\ Len(fields[n - 1]) = 2
             /\ Len(fields[n]) = 2]_vars

\* C19: the text getQueueLength() returns has no hours field exactly when
\* the hours are zero; its seconds field has two digits for every total;
\* its minutes field has two digits when there is an hours field, and is
\* the minutes without a leading zero (one digit below ten minutes) when
\* there is none.
C19_MinutesPaddedAfterHours ==
    [][lastOp'.name = "getQueueLength"
       => LET fields == C18_Fields(queueLengthText')
              n == Len(fields)
              total == C18_Sum(C18_Lengths)
              hours == total \div 3600
              minutes == (total % 3600) \div 60
          IN /\ (n = 2) <=> (hours = 0)
             /\ (n = 3) <=> (hours > 0)
             /\ Len(fields[n]) = 2
             /\ Len(fields[n - 1]) =
                    IF hours = 0 /\ minutes < 10 THEN 1 ELSE 2]_vars

\* getQueueLength() has returned "2:04" for a queue of lengths 59 and 65:
\* no hours, and the minutes in one digit.
C19_Witness ==
    /\ lastOp.name = "getQueueLength"
    /\ queueLengthText = <<"2", ":", "0", "4">>
    /\ C18_Lengths = <<59, 65>>

\* enqueue(track) has just run.
C20_EnqueueStep(track) ==
    lastOp' = [name |-> "enqueue", arg |-> <<track>>, ret |-> "void"]

\* C20: enqueue(track) never throws and puts track behind the entries of the
\* queue, which stay in their order.  When the player is not Idle or a
\* processQueue is suspended, the call changes nothing else: currentObject,
\* the flags, skippedSong, queueLock and the player are as they were.
\* Otherwise the processQueue it calls may take the head of that queue.
C20_EnqueueAppends ==
    [][\A track \in Tracks :
         C20_EnqueueStep(track)
         => /\ fault' = fault
            /\ playbackFlags' = playbackFlags
            /\ IF status # "Idle" \/ queueLock
               THEN /\ queue' = Append(queue, track)
                    /\ UNCHANGED <<currentObject, status, resource,
                                   stopping, skippedSong, queueLock,
                                   pending>>
               ELSE \/ /\ queue' = Append(queue, track)
                       /\ pending' = <<currentObject>>
                    \/ /\ pending' = <<Head(Append(queue, track))>>
                       /\ \E k \in 0..1 :
                             SubSeq(queue', 1, Len(queue') - k)
                                = Tail(Append(queue, track))]_vars

\* enqueue has put the third descriptor behind the second while the first
\* was paused.
C20_Witness ==
    /\ lastOp = [name |-> "enqueue", arg |-> <<3>>, ret |-> "void"]
    /\ status = "Paused"
    /\ queue = <<2, 3>>

\* C21: enqueueStart(track) on a Playing player with no processQueue
\* suspended puts track at the head of the queue and does what skipTrack()
\* does (skippedSong set, the player asked to stop) and nothing else; when
\* the player then goes Idle, processQueue takes track whatever the repeat,
\* loop and shuffle flags are, and track is what the player is given when
\* its stream arrives.
C21_PlayNow ==
    [][\A track \in Tracks :
         /\ (/\ lastOp' = [name |-> "enqueueStart", arg |-> <<track>>,
                           ret |-> "void"]
             /\ status = "Playing" /\ ~queueLock)
            => /\ queue' = <<track>> \o queue
               /\ skippedSong' /\ stopping'
               /\ UNCHANGED <<status, resource, currentObject, queueLock,
                              playbackFlags, pending, fault>>
         /\ (/\ lastOp = [name |-> "enqueueStart", arg |-> <<track>>,
                          ret |-> "void"]
             /\ status = "Playing" /\ status' = "Idle")
            => /\ pending' = <<track>>
               /\ currentObject' = currentObject
               /\ fault' = fault
         /\ (/\ pending = <<track>> /\ status' = "Buffering")
            => /\ resource' = track
               /\ currentObject' = track
               /\ pending' = <<>>]_vars

\* enqueueStart has run on a Playing player with repeat set and another
\* descriptor waiting in the queue.
C21_Witness ==
    /\ lastOp.name = "enqueueStart"
    /\ status = "Playing" /\ stopping /\ skippedSong
    /\ playbackFlags.repeat
    /\ Len(queue) = 2
    /\ queue[1] = nextId - 1

\* The batch of the enqueueMultiple that has just run, and the orders in
\* which it may have been inserted.
C22_Tracks == [k \in 1..lastOp'.arg[3] |-> lastOp'.arg[1] + k - 1]

C22_Blocks ==
    IF playbackFlags.shuffle
    THEN {b \in [1..Len(C22_Tracks) -> Range(C22_Tracks)] :
            \A i, j \in 1..Len(C22_Tracks) : i # j => b[i] # b[j]}
    ELSE {C22_Tracks}

\* The queue with the block in front of it or behind it.
C22_Inserted(block) ==
    IF lastOp'.arg[2] = 1 THEN block \o queue ELSE queue \o block

\* skipTrack() ran in the call exactly when the batch went in front.
C22_SkipIffFront ==
    IF lastOp'.arg[2] = 1
    THEN stopping' = (status # "Idle")
    ELSE stopping' = stopping

\* C22 as the specification words it: after enqueueMultiple(tracks,
\* enqueueAtStart) the queue is the old queue with a permutation of tracks
\* (tracks itself when shuffle is off) in one block, in front of the old
\* entries and with skippedSong set and the player asked to stop when
\* enqueueAtStart, behind them and with neither otherwise.
C22_BlockInserted ==
    [][lastOp'.name = "enqueueMultiple"
       => /\ \E block \in C22_Blocks : queue' = C22_Inserted(block)
          /\ C22_SkipIffFront
          /\ skippedSong' = (skippedSong \/ lastOp'.arg[2] = 1)]_vars

\* C22: that holds when enqueueMultiple runs with the player not Idle or a
\* processQueue suspended.  On an Idle player with no processQueue
\* suspended, the processQueue the call ends with has already taken the
\* head of that queue (and under loop put currentObject back into it), or
\* under repeat has chosen currentObject again, and has cleared skippedSong.
\* No entry of the old queue or of the batch is lost or doubled either way.
C22_BlockInsertedThenAdvance ==
    [][lastOp'.name = "enqueueMultiple"
       => /\ C22_SkipIffFront
          /\ fault' = fault
          /\ IF status # "Idle" \/ queueLock
             THEN /\ \E block \in C22_Blocks : queue' = C22_Inserted(block)
                  /\ skippedSong' = (skippedSong \/ lastOp'.arg[2] = 1)
                  /\ UNCHANGED <<currentObject, queueLock, pending,
                                 playbackFlags>>
             ELSE /\ ~skippedSong'
                  /\ \E block \in C22_Blocks :
                       LET q == C22_Inserted(block)
                       IN \/ /\ pending' = <<Head(q)>>
                             /\ \/ queue' = Tail(q)
                                \/ \E k \in 1..Len(queue') :
                                     /\ queue'[k] = currentObject
                                     /\ playbackFlags.loop
                                     /\ RemoveAt(queue', k) = Tail(q)
                          \/ /\ pending' = <<currentObject>>
                             /\ playbackFlags.repeat
                             /\ lastOp'.arg[2] = 0
                             /\ queue' = q]_vars

\* enqueueMultiple has put a batch of two in front of the queue while
\* another descriptor was playing, with shuffle off.
C22_Witness ==
    /\ lastOp.name = "enqueueMultiple" /\ lastOp.arg[2] = 1
    /\ lastOp.arg[3] = 2
    /\ status = "Playing" /\ stopping /\ skippedSong
    /\ ~playbackFlags.shuffle
    /\ SubSeq(queue, 1, 2) = <<lastOp.arg[1], lastOp.arg[1] + 1>>

\* The descriptors that are in the queue, being resolved, or loaded into the
\* player.
C23_Rotation ==
    Range(queue) \cup Range(pending)
        \cup (IF status # "Idle" THEN {resource} ELSE {})

\* C23: with loop set and repeat and shuffle not, when a descriptor finishes
\* while the queue is not empty, processQueue takes the head of the queue
\* and puts the finished descriptor, which is currentObject, behind the
\* last entry; so without skips and failing resolutions the descriptors
\* come round in one fixed cyclic order, and under loop no step takes a
\* descriptor out of the queue, the resolution and the player together.
C23_LoopRotates ==
    [][/\ (/\ status = "Playing" /\ status' = "Idle"
           /\ playbackFlags.loop
           /\ ~playbackFlags.repeat /\ ~playbackFlags.shuffle
           /\ queue # <<>>)
          => /\ currentObject = resource
             /\ pending' = <<Head(queue)>>
             /\ queue' = Tail(queue) \o <<currentObject>>
       /\ (playbackFlags.loop /\ playbackFlags'.loop)
          => C23_Rotation \subseteq C23_Rotation']_vars

\* Under loop the first descriptor has finished and is back in the queue
\* behind the third, while the second is playing.
C23_Witness ==
    /\ playbackFlags.loop
    /\ ~playbackFlags.repeat /\ ~playbackFlags.shuffle
    /\ status = "Playing" /\ resource = 2
    /\ queue = <<3, 1>>

\* C24: skipTrack() while a processQueue is suspended (queueLock set, the
\* player Idle) only sets skippedSong: it takes nothing from the queue,
\* starts nothing and leaves the resolution alone, and when the stream then
\* arrives the descriptor that was being resolved becomes currentObject and
\* is given to the player.
C24_SkipLeavesResolution ==
    [][/\ (/\ lastOp'.name = "skipTrack"
           /\ queueLock /\ status = "Idle" /\ pending # <<>>)
          => /\ skippedSong'
             /\ UNCHANGED <<queue, pending, queueLock, status, resource,
                            stopping, currentObject, playbackFlags, fault>>
       /\ (/\ lastOp.name = "skipTrack" /\ pending # <<>>
           /\ lastOp'.name = "resolved")
          => /\ currentObject' = pending[1]
             /\ resource' = pending[1]
             /\ status' = "Buffering"
             /\ queue' = queue]_vars

\* The stream of a descriptor has arrived right after a skipTrack() that
\* ran during its resolution: the player has been given the descriptor.
C24_Witness ==
    /\ lastOp.name = "resolved"
    /\ status = "Buffering" /\ resource = currentObject
    /\ skippedSong /\ ~stopping

\* C25: skippedSong is read and cleared by the processQueue of the Idle
\* transition the skip forced, so it is not set when a descriptor ends by
\* itself (the player goes from Playing to Idle with no stop() asked for),
\* in whatever state the skip was requested.
C25_SkipFlagConsumed ==
    [][(status = "Playing" /\ status' = "Idle" /\ ~stopping)
       => ~skippedSong]_vars

\* C29: a processQueue that returns at its first guard (queueLock set or
\* the player not Idle) or at its second (the queue empty, and currentObject
\* null or neither loop nor repeat set) changes nothing: in every state in
\* which a guard holds the call leaves the state as it is, and an Idle
\* transition whose processQueue meets the second guard changes nothing but
\* the player.
C29_GuardedAdvanceIsNoOp ==
    /\ []((\/ queueLock
           \/ status # "Idle"
           \/ /\ queue = <<>>
              /\ \/ currentObject = NoTrack
                 \/ ~(playbackFlags.loop \/ playbackFlags.repeat))
          => ProcessQueue(St) = {St})
    /\ [][(/\ status = "Playing" /\ status' = "Idle"
           /\ queue = <<>>
           /\ \/ currentObject = NoTrack
              \/ ~(playbackFlags.loop \/ playbackFlags.repeat))
          => UNCHANGED <<queue, currentObject, playbackFlags, queueLock,
                         skippedSong, pending, fault>>]_vars

\* A skipped descriptor has gone Idle with nothing to play: processQueue
\* returned at its second guard and skippedSong is still set.
C29_Witness ==
    /\ status = "Idle" /\ ~queueLock /\ pending = <<>>
    /\ queue = <<>> /\ currentObject # NoTrack
    /\ ~playbackFlags.loop /\ ~playbackFlags.repeat
    /\ skippedSong /\ ~fault

\* C30: whenever processQueue takes the branch of line 283, queue.shift()
\* gives a descriptor: no call ever finds the queue empty there.
C30_ShiftFindsEntry == ~fault

\* C26: when the handler destroys the connection after a disconnect it
\* could not recover from (the bot was removed from the channel, or no
\* rejoin attempt is left), the queue is emptied, the audio player is Idle
\* and voiceConnections has no entry for the guild any more.
C26_DisconnectTearsDown ==
    [][(/\ voiceConnection.status # "Destroyed"
        /\ voiceConnection'.status = "Destroyed"
        /\ lastOp'.name \in {"kicked", "Disconnected"})
       => /\ queue' = <<>>
          /\ status' = "Idle"
          /\ Guild \notin voiceConnections']_vars

\* C27: when the wait of a play command for Ready times out, the command
\* replies with the error, the connection of the session is destroyed and
\* voiceConnections has no entry for the guild, so that the next play
\* command joins afresh.
C27_JoinTimeoutTearsDown ==
    [][(/\ awaiting = "waiting" /\ awaiting' = "none"
        /\ lastOp'.name = "play")
       => /\ lastOp'.ret = "Failed to join voice channel"
          /\ voiceConnection'.status = "Destroyed"
          /\ Guild \notin voiceConnections']_vars

\* C28: a leave command on a registered session leaves the connection
\* Destroyed, the queue empty, the audio player Idle and voiceConnections
\* without an entry for the guild; the play command that follows constructs
\* a session with an empty queue and no flag set and registers it.
C28_LeaveDestroys ==
    [][/\ (Registered /\ lastOp'.name = "leave")
          => /\ voiceConnection'.status = "Destroyed"
             /\ queue' = <<>>
             /\ status' = "Idle"
             /\ Guild \notin voiceConnections'
       /\ (lastOp.name = "leave" /\ lastOp'.name = "join")
          => /\ queue' = <<>>
             /\ playbackFlags' = [repeat |-> FALSE, loop |-> FALSE,
                                  shuffle |-> FALSE]
             /\ Guild \in voiceConnections']_vars

\* The step in which the resolution of pending[i] fails.
C31_Fails(i) == \E r \in Rejected(St, i) : Commit(r)

\* C31: when the resolution of a descriptor fails, the processQueue called
\* from the catch block does not select that descriptor again: it resolves
\* the head of the queue, or nothing when the queue is empty, whatever the
\* flags are.
C31_RetrySkipsFailed ==
    [][\A i \in 1..Len(pending) :
         C31_Fails(i) =>
            /\ pending[i] \notin Range(pending')
            /\ queue # <<>> => pending' = <<Head(queue)>>
            /\ queue = <<>> => (pending' = <<>> /\ ~queueLock')]_vars

\* C32: whenever the audio player is not Idle, currentObject is set and is
\* the descriptor whose resource the player holds; currentObject changes only
\* in the step in which a resolution succeeds and play() is called with the
\* resource of the new value.
C32_CurrentIsLoaded ==
    /\ [](status # "Idle" =>
             (currentObject # NoTrack /\ currentObject = resource))
    /\ [][currentObject' # currentObject =>
             /\ pending # <<>>
             /\ currentObject' = pending[1]
             /\ pending' = <<>>
             /\ status = "Idle" /\ status' = "Buffering"
             /\ resource' = currentObject']_vars

\* The second descriptor is loaded and paused, the first one has been played.
C32_Witness ==
    /\ status = "Paused"
    /\ currentObject = 2 /\ resource = 2
    /\ 1 \notin Range(queue)

\* C33: for every pair of numbers typed as a range and every queue, the
\* arguments commandSkip hands to skipRangeTracks satisfy
\* 0 <= lower <= higher <= queue.length, the call reads no entry past the
\* end of the queue and does not throw.
C33_RangeIsClamped ==
    \A first \in SkipTargets, second \in SkipTargets :
        LET bounds == SkipRangeClamped(St, first, second)
        IN /\ 0 <= bounds[1]
           /\ bounds[1] <= bounds[2]
           /\ bounds[2] <= Len(queue)
           /\ ~SkipRangeThrows(St, bounds[1], bounds[2])
           /\ lastOp.name = "commandSkipRange" => lastOp.ret = "Skipped"

\* A range whose larger number was past the end of a queue of two has been
\* skipped: both entries are gone and the current descriptor plays on.
C33_Witness ==
    /\ lastOp.name = "commandSkipRange"
    /\ lastOp.arg = <<NTracks + 1, 1>>
    /\ queue = <<>> /\ nextId = 4
    /\ status = "Playing" /\ ~stopping

\* C34: commandSkip with a single index n between 1 and the queue length
\* removes exactly the n-th entry of the queue and leaves the player and the
\* current descriptor alone; with n greater than the queue length it replies
\* that the index must exist and changes neither the queue nor the playback.
C34_IndexSkipsOne ==
    [][\A n \in SkipTargets :
         (/\ n >= 1
          /\ Commit(CommandSkipIndexDoes(St, n))
          /\ lastOp' = Op("commandSkipIndex", <<n, Len(queue)>>,
                          CommandSkipIndexReplies(St, n)))
         => IF n <= Len(queue)
            THEN /\ queue' = RemoveAt(queue, n)
                 /\ UNCHANGED <<status, resource, stopping, currentObject,
                                skippedSong, pending>>
            ELSE /\ lastOp'.ret =
                      "Please enter a track index that exists within the queue."
                 /\ UNCHANGED <<queue, status, resource, stopping,
                                currentObject, skippedSong, pending>>]_vars

\* C35: with repeat clear, every descriptor that is in the queue is sooner
\* or later taken out of it and its resolution settled (it is played, its
\* onError runs, or a skip or stopQueue removed it), and the session does
\* not stay for ever in a state with the player Idle, descriptors in the
\* queue and no resolution in flight.
C35_NoLostWakeUp ==
    /\ \A t \in Tracks :
          (t \in Range(queue)) ~>
              (t \notin Range(queue) /\ t \notin Range(pending))
    /\ []<>~(status = "Idle" /\ queue # <<>> /\ pending = <<>>)

\* C36: while loop is set no descriptor is in the queue twice, and the
\* descriptor the player holds is not in the queue as well: every descriptor
\* is at most once in the queue plus the player.
C36_LoopKeepsOneCopy ==
    playbackFlags.loop =>
        /\ \A i, j \in 1..Len(queue) : queue[i] = queue[j] => i = j
        /\ status # "Idle" => currentObject \notin Range(queue)

\* play() has just been called with the resource of descriptor t.
C37_Starts(t) == status = "Buffering" /\ resource = t /\ ~stopping

\* C37: a descriptor that was queued, being resolved or current when
\* stopQueue() was called is never handed to play() after the call has
\* returned (no descriptor is enqueued twice), whatever is done afterwards.
C37_StoppedStaysStopped == \A t \in stopped : ~C37_Starts(t)

\* C38: a session whose voice connection is Destroyed never calls play()
\* again and its queue stays empty, whatever resolution was in flight and
\* whatever command still holds the session.
C38_DestroyedStaysSilent ==
    [][(/\ voiceConnection.status = "Destroyed"
        /\ voiceConnection'.status = "Destroyed")
       => /\ queue' = <<>>
          /\ status' = "Buffering" => status = "Buffering"]_vars

\* C39: when from some point on nothing happens but resolutions that fail,
\* the chain of retries comes to an end: no resolution is in flight any more
\* and queueLock is clear, whatever repeat and loop are and however long the
\* queue is.
C39_RetriesEnd ==
    (<>[][lastOp'.name = "rejected"]_vars)
        => <>[](pending = <<>> /\ ~queueLock)

\* C40: enqueue(track) on a session whose player is Idle, whose queueLock is
\* clear and whose queue is empty makes track the descriptor that is
\* resolved next, whatever the flags and skippedSong are and whether or not
\* a descriptor has been played before.
C40_EnqueueOnIdlePlaysIt ==
    [][(/\ lastOp'.name = "enqueue"
        /\ status = "Idle" /\ ~queueLock /\ pending = <<>>
        /\ queue = <<>>)
       => /\ pending' = <<lastOp'.arg[1]>>
          /\ queue' = <<>>]_vars

====
